---- MODULE Spec2Model ----
(***************************************************************************)
(* Model of the AI Study Tutor: the server (src/server.js) with the        *)
(* provider fallback loop callAI, the route handlers, the quiz pipeline of *)
(* /api/generateQuiz and the summary clean-up of /api/summarize, and the   *)
(* page (main.js) with its click handlers and its quiz.                    *)
(***************************************************************************)
EXTENDS Integers, Sequences, FiniteSets, TLC

VARIABLES
    pc,        \* position of the callAI invocation: "idle", "loop", "await", "done"
    i,         \* loop index of callAI (0-based, as in the code)
    attempts,  \* history of this invocation: <<[model, outcome]>>, one entry per fetch
    answers,   \* whether the provider will ever answer the fetch in flight
    result,    \* what callAI returned or threw
    order,     \* the candidate list this invocation walks (the local freeModels)
    stage,     \* /api/generateQuiz: position of the handler after callAI returned
    matches,   \* /api/generateQuiz: questionTexts, allOptions, correctIndices of the fallback
    quizIn,    \* /api/generateQuiz: quizData before the filter
    quizCount, \* /api/generateQuiz: req.body.count
    quizOut,   \* /api/generateQuiz: what the handler answers
    raw,       \* /api/summarize: rawSummary
    cleaned,   \* /api/summarize: the summary the server answers
    shown,     \* page: the summary the click handler displays
    request,   \* route handler: the request body and the environment it runs in
    hpc,       \* route handler: "received", "validated", "authorized", "called", "rejected"
    reply,     \* route handler: the response sent so far
    promptContent, \* route handler: the content placed in the prompt
    calls,     \* route handler: number of callAI invocations it issued
    reqs,      \* concurrent requests: the callAI invocation of each
    response,  \* /api/generateQuiz: the text callAI returned (quiz)
    payload,   \* /api/generateQuiz: the isolated text (cleaned)
    pending,   \* page: the requests of the click handlers still in flight, in order of issue
    loading,   \* page: whether loadingEl is visible
    summaryVisible, \* page: whether summarySection is visible
    quizVisible,    \* page: whether quizSection is visible
    quizQuestions, \* page: the questions rendered in quizContainer
    state,     \* page: the state object of the current render (answers, correct)
    selected,  \* page: per question, the options carrying the class selected
    clicked,   \* page: per question, the option clicked last since the render
    score,     \* page: quizResult (hidden, and the score it holds)
    retryVisible,   \* page: whether retryQuiz is visible
    retryListeners, \* page: the click listeners registered on retryQuiz (their questions)
    rendered,  \* page: the arguments of the renderQuiz calls of the last retry click
    uncaught   \* page: whether a handler ended in an uncaught TypeError

vars == <<pc, i, attempts, answers, result, order, stage, matches, quizIn, quizCount,
          quizOut, raw, cleaned, shown, request, hpc, reply, promptContent, calls,
          reqs, response, payload, pending, loading, summaryVisible, quizVisible,
          quizQuestions, state, selected, clicked, score, retryVisible, retryListeners,
          rendered, uncaught>>

callVars == <<pc, i, attempts, answers, result, order>>
quizVars == <<stage, matches, quizIn, quizCount, quizOut>>
cleanVars == <<raw, cleaned, shown>>
reqVars == <<request, hpc, reply, promptContent, calls>>
concVars == <<reqs>>
docVars == <<response, payload>>
loadVars == <<pending, loading, summaryVisible>>
quizPageVars == <<quizQuestions, state, selected, clicked, score, retryVisible, retryListeners,
                  rendered, uncaught>>
pageVars == <<loadVars, quizVisible, quizPageVars>>
extVars == <<reqVars, concVars, docVars, pageVars>>

-----------------------------------------------------------------------------
(* callAI: src/server.js 22-99 *)

freeModels == <<"llama", "phi3", "gemma", "zephyr", "openchat">>

\* HTTP statuses the provider may answer with
Statuses == {200, 401, 429, 500, 503}

\* A provider answer: status, whether the body is JSON (response.json() resolves),
\* and whether data.choices[0].message.content is a non-empty string.
Responses == {r \in [status : Statuses, json : BOOLEAN, content : BOOLEAN] :
                 r.content => (r.json /\ r.status = 200)}

ResponseOk(r) == r.status >= 200 /\ r.status <= 299

\* The order in which an invocation tries the models: the list as declared
CandidateOrder == freeModels

NoResult == [kind |-> "none", model |-> "none", msg |-> "none"]

\* for (let i = 0; i < freeModels.length; i++)
LoopCondShort(k) == k < Len(freeModels) - 1
LoopCond(k) == k < Len(freeModels)

\* catch (err): rethrow on the last model, otherwise continue
IsLastModelNever(k) == k = Len(freeModels)
IsLastModel(k) == k = Len(freeModels) - 1

\* What one loop iteration does with the provider's answer r:
\* "continue", "return", or "throw" (an exception raised inside the try block).
IterationOutcomeNoContentCheck(r) ==
    IF ~r.json THEN "throw"
    ELSE IF r.status = 429 THEN "continue"
    ELSE IF ~ResponseOk(r) THEN
        IF r.status >= 500 \/ r.status = 503 THEN "continue" ELSE "throw"
    ELSE "return"
IterationOutcome(r) ==
    IF ~r.json THEN "throw"                         \* await response.json() rejects
    ELSE IF r.status = 429 THEN "continue"
    ELSE IF ~ResponseOk(r) THEN
        IF r.status >= 500 \/ r.status = 503 THEN "continue" ELSE "throw"
    ELSE IF ~r.content THEN "continue"
    ELSE "return"

\* The class under which an answer is recorded in the history
StatusClass(r) ==
    IF r.status = 429 THEN "429"
    ELSE IF r.status >= 500 THEN "5xx"
    ELSE IF r.status >= 400 THEN "4xx"
    ELSE "2xx"

OutcomeClass(r) == [class |-> StatusClass(r), json |-> r.json, content |-> r.content]

\* fetch rejected: there is no response at all
NetworkError == [class |-> "network", json |-> FALSE, content |-> FALSE]

Record(r) == Append(attempts, [model |-> order[i + 1], outcome |-> OutcomeClass(r)])

\* callAI(prompt, maxTokens) is invoked
CallAI ==
    /\ pc \in {"idle", "done"}
    /\ pc' = "loop"
    /\ i' = 0
    /\ attempts' = <<>>
    /\ result' = NoResult
    /\ order' = CandidateOrder
    /\ UNCHANGED <<answers, quizVars, cleanVars, extVars>>

\* await fetch(...) for freeModels[i]; the provider may never answer
Fetch ==
    /\ pc = "loop"
    /\ LoopCond(i)
    /\ pc' = "await"
    /\ \E a \in BOOLEAN : answers' = a
    /\ UNCHANGED <<i, attempts, result, order, quizVars, cleanVars, extVars>>

\* the loop ran out of models: throw "All available models are currently unavailable"
LoopExit ==
    /\ pc = "loop"
    /\ ~LoopCond(i)
    /\ pc' = "done"
    /\ result' = [kind |-> "Unavailable", model |-> "none", msg |-> "unavailable"]
    /\ UNCHANGED <<i, attempts, answers, order, quizVars, cleanVars, extVars>>

\* catch (err) of the iteration, err carrying message m
Catch(m, hist) ==
    /\ attempts' = hist
    /\ IF IsLastModel(i)
       THEN /\ pc' = "done"
            /\ result' = [kind |-> "AllFailed", model |-> "none", msg |-> m]
            /\ i' = i
       ELSE /\ pc' = "loop"
            /\ i' = i + 1
            /\ result' = result

\* the provider answers r and the rest of the iteration body runs
Receive(r) ==
    /\ pc = "await"
    /\ answers
    /\ LET o == IterationOutcome(r) IN
       CASE o = "continue" ->
              /\ attempts' = Record(r)
              /\ i' = i + 1
              /\ pc' = "loop"
              /\ result' = result
         [] o = "return" ->
              /\ attempts' = Record(r)
              /\ pc' = "done"
              /\ result' = [kind |-> "Success", model |-> order[i + 1], msg |-> "content"]
              /\ i' = i
         [] o = "throw" -> Catch(StatusClass(r), Record(r))
    /\ UNCHANGED <<answers, order, quizVars, cleanVars, extVars>>

RateLimited == \E r \in Responses : r.json /\ r.status = 429 /\ Receive(r)
ServerError == \E r \in Responses : r.json /\ r.status >= 500 /\ Receive(r)
ClientError == \E r \in Responses : r.json /\ r.status = 401 /\ Receive(r)
EmptyContent == \E r \in Responses : r.json /\ r.status = 200 /\ ~r.content /\ Receive(r)
Success == \E r \in Responses : r.content /\ Receive(r)
BadBody == \E r \in Responses : ~r.json /\ Receive(r)

\* fetch itself rejects (network / transport error)
FetchThrows ==
    /\ pc = "await"
    /\ answers
    /\ Catch("network", Append(attempts, [model |-> order[i + 1], outcome |-> NetworkError]))
    /\ UNCHANGED <<answers, order, quizVars, cleanVars, extVars>>

CallInit ==
    /\ pc = "idle"
    /\ i = 0
    /\ attempts = <<>>
    /\ answers = TRUE
    /\ result = NoResult
    /\ order = CandidateOrder

-----------------------------------------------------------------------------
(* Values of the loosely typed data the quiz handler works on.  A number is *)
(* kept in halves (Num(3) is 1.5) so that non-integers exist.               *)

Undefined == [t |-> "undefined"]
Null == [t |-> "null"]
Num(h) == [t |-> "number", halves |-> h]
Str(c) == [t |-> "string", chars |-> c]
Arr(xs) == [t |-> "array", items |-> xs]
Obj(q, o, c) == [t |-> "object", question |-> q, options |-> o, correctIndex |-> c]

IsInteger(v) == v.t = "number" /\ v.halves % 2 = 0

\* JavaScript truthiness
Truthy(v) ==
    CASE v.t \in {"undefined", "null"} -> FALSE
      [] v.t = "number" -> v.halves # 0
      [] v.t = "string" -> Len(v.chars) > 0
      [] OTHER -> TRUE

\* q.f : undefined on a primitive (the caller never asks for a field a primitive has)
Prop(q, f) == IF q.t = "object" THEN q[f] ELSE Undefined

\* reading a property of null or undefined raises a TypeError
PropThrows(q) == q.t \in {"null", "undefined"}

RECURSIVE TrimStart(_)
TrimStart(c) == IF c # <<>> /\ Head(c) = " " THEN TrimStart(Tail(c)) ELSE c

RECURSIVE TrimEnd(_)
TrimEnd(c) == IF c # <<>> /\ c[Len(c)] = " " THEN TrimEnd(SubSeq(c, 1, Len(c) - 1)) ELSE c

\* String.prototype.trim
Trim(c) == TrimEnd(TrimStart(c))

Min(a, b) == IF a <= b THEN a ELSE b

-----------------------------------------------------------------------------
(* /api/generateQuiz after the response was isolated: src/server.js 241-336 *)

MaxRecords == 3
MaxCount == 2
MaxMatches == 2

DefaultCount == 5

PlaceholderOptions == <<"Option A", "Option B", "Option C", "Option D">>

NoMatches == [questions |-> <<>>, options |-> <<>>, indices |-> <<>>]
NoQuizOut == [kind |-> "none", filtered |-> <<>>, questions |-> <<>>]

\* the predicate of the filter
IsValidNoUpperBound(q) ==
    LET question == Prop(q, "question")
        options == Prop(q, "options")
        correctIndex == Prop(q, "correctIndex")
    IN  /\ Truthy(question)
        /\ question.t = "string"
        /\ Len(Trim(question.chars)) > 0
        /\ options.t = "array"
        /\ Len(options.items) >= 2
        /\ correctIndex.t = "number"
        /\ correctIndex.halves >= 0
IsValid(q) ==
    LET question == Prop(q, "question")
        options == Prop(q, "options")
        correctIndex == Prop(q, "correctIndex")
    IN  /\ Truthy(question)
        /\ question.t = "string"
        /\ Len(Trim(question.chars)) > 0
        /\ options.t = "array"
        /\ Len(options.items) >= 2
        /\ correctIndex.t = "number"
        /\ correctIndex.halves >= 0
        /\ correctIndex.halves < 2 * Len(options.items)

\* parseInt(count) || 5
SliceLimit(count) == IF count = 0 THEN DefaultCount ELSE count

\* Array.prototype.slice(0, n), n >= 0
SliceOneMore(xs, n) == SubSeq(xs, 1, Min(n + 1, Len(xs)))
Slice(xs, n) == SubSeq(xs, 1, Min(n, Len(xs)))

\* the questions array the fallback builds from its three lists of matches
AssembleOneShort(m) ==
    LET maxQuestions == Min(Len(m.questions), Min(Len(m.options), Len(m.indices))) - 1
    IN  [k \in 1..maxQuestions |->
            Obj(Str(m.questions[k]), Arr(m.options[k]), Num(2 * m.indices[k]))]
Assemble(m) ==
    LET maxQuestions == Min(Len(m.questions), Min(Len(m.options), Len(m.indices)))
    IN  [k \in 1..maxQuestions |->
            Obj(Str(m.questions[k]), Arr(m.options[k]), Num(2 * m.indices[k]))]

\* JSON.parse failed: the fallback extracts its matches and builds quizData
FallbackAssemble ==
    /\ stage = "fallback"
    /\ LET questions == Assemble(matches) IN
       IF Len(questions) > 0
       THEN /\ quizIn' = questions
            /\ stage' = "parsed"
            /\ quizOut' = quizOut
       ELSE /\ quizIn' = quizIn
            /\ stage' = "done"
            /\ quizOut' = [kind |-> "ParseFailed", filtered |-> <<>>, questions |-> <<>>]
    /\ UNCHANGED <<matches, quizCount, callVars, cleanVars, extVars>>

\* quizData.filter(...).slice(0, parseInt(count) || 5), then the emptiness check
ValidateFilter ==
    /\ stage = "parsed"
    /\ stage' = "done"
    /\ IF \E k \in 1..Len(quizIn) : PropThrows(quizIn[k])
       THEN quizOut' = [kind |-> "TypeError", filtered |-> <<>>, questions |-> <<>>]
       ELSE LET filtered == SelectSeq(quizIn, IsValid)
                kept == Slice(filtered, SliceLimit(quizCount))
            IN  quizOut' = [kind |-> IF Len(kept) = 0 THEN "NoValid" ELSE "Ok",
                            filtered |-> filtered,
                            questions |-> IF Len(kept) = 0 THEN <<>> ELSE kept]
    /\ UNCHANGED <<matches, quizIn, quizCount, callVars, cleanVars, extVars>>

(* The inputs *)

BlankText == <<" ", " ">>
ShortText == <<" ", "Q", "?", " ">>
LongText == <<"W", "h", "a", "t", " ", "i", "s", " ", "i", "t", "?">>

QuestionValues == {Undefined, Num(14), Str(<<>>), Str(BlankText), Str(ShortText), Str(LongText)}
OptionsValues == {Undefined, Str(<<"A", "B">>), Arr(<<>>), Arr(<<"A">>), Arr(<<"A", "B">>),
                  Arr(<<"A", "B", "C">>)}
IndexValues == {Undefined, Str(<<"1">>), Num(-2), Num(0), Num(2), Num(3), Num(4), Num(10)}

\* every element JSON.parse may put in the array
Elements == {Obj(q, o, c) : q \in QuestionValues, o \in OptionsValues, c \in IndexValues}
                \cup {Null, Num(10), Str(LongText)}

GoodRecord == Obj(Str(LongText), Arr(<<"A", "B", "C">>), Num(2))
BadIndexRecord == Obj(Str(LongText), Arr(<<"A", "B", "C">>), Num(10))
Fillers == {GoodRecord, BadIndexRecord, Null}

\* arrays of at most MaxRecords elements: one arbitrary element among fillers
QuizInputs ==
    {<<>>} \cup
    UNION {{[k \in 1..n |-> IF k = j THEN e ELSE base[k]] :
                j \in 1..n, e \in Elements, base \in [1..n -> Fillers]} : n \in 1..MaxRecords}

SeqsUpTo(S, n) == UNION {[1..m -> S] : m \in 0..n}

MatchInputs ==
    [questions : SeqsUpTo({BlankText, LongText}, MaxMatches),
     options : SeqsUpTo({<<"A">>, <<"A", "B">>, PlaceholderOptions}, MaxMatches),
     indices : SeqsUpTo({0, 5}, MaxMatches)]

QuizIdle ==
    /\ stage = "idle"
    /\ matches = NoMatches
    /\ quizIn = <<>>
    /\ quizCount = 0
    /\ quizOut = NoQuizOut

QuizInit ==
    /\ quizCount \in 0..MaxCount
    /\ quizOut = NoQuizOut
    /\ \/ stage = "parsed" /\ matches = NoMatches /\ quizIn \in QuizInputs
       \/ stage = "fallback" /\ matches \in MatchInputs /\ quizIn = <<>>

-----------------------------------------------------------------------------
(* Summary clean-up: src/server.js 132-153 and the page's click handler.    *)
(* A text is a sequence of tokens: a lead-in phrase (one token, as written  *)
(* in the pattern or in capitals), a blank " ", or any other word "w".      *)

MaxText == 3

\* the phrases of introPatterns, in the order of the array
introPatterns ==
    << "Here's a summary of the text in 50 words or less that a student can understand:",
       "Here's a summary of the text:",
       "Here's a concise summary:",
       "Summary:",
       "Here is a summary:",
       "The text can be summarized as follows:",
       "This text discusses:",
       "The following is a summary:",
       "Below is a summary:" >>

\* the same phrases in capitals
Capitals ==
    << "HERE'S A SUMMARY OF THE TEXT IN 50 WORDS OR LESS THAT A STUDENT CAN UNDERSTAND:",
       "HERE'S A SUMMARY OF THE TEXT:",
       "HERE'S A CONCISE SUMMARY:",
       "SUMMARY:",
       "HERE IS A SUMMARY:",
       "THE TEXT CAN BE SUMMARIZED AS FOLLOWS:",
       "THIS TEXT DISCUSSES:",
       "THE FOLLOWING IS A SUMMARY:",
       "BELOW IS A SUMMARY:" >>

\* the page applies the first seven patterns only
ClientPatterns == 7

\* /^phrase\s*/i at the start of s
MatchesIntro(s, k) == s # <<>> /\ (Head(s) = introPatterns[k] \/ Head(s) = Capitals[k])

\* summary.replace(pattern, '')
ReplaceIntro(s, k) == IF MatchesIntro(s, k) THEN TrimStart(Tail(s)) ELSE s

\* for (const pattern of introPatterns) summary = summary.replace(pattern, '')
RECURSIVE ReplaceAll(_, _, _)
ReplaceAll(s, k, last) == IF k > last THEN s ELSE ReplaceAll(ReplaceIntro(s, k), k + 1, last)

\* the server's clean-up of rawSummary
Clean(x) == Trim(ReplaceAll(Trim(x), 1, Len(introPatterns)))

\* the page's chain of replace calls on resp.summary, then trim
ClientClean(x) == Trim(ReplaceAll(x, 1, ClientPatterns))

Tokens == {introPatterns[k] : k \in 1..Len(introPatterns)}
            \cup {Capitals[k] : k \in 1..Len(Capitals)} \cup {" ", "w"}

Texts == SeqsUpTo(Tokens, MaxText)

NoText == [done |-> FALSE, text |-> <<>>]

\* /api/summarize answers with the cleaned summary
Summarize ==
    /\ ~cleaned.done
    /\ cleaned' = [done |-> TRUE, text |-> Clean(raw)]
    /\ UNCHANGED <<raw, shown, callVars, quizVars, extVars>>

\* the click handler cleans resp.summary again and displays it
ShowSummary ==
    /\ cleaned.done
    /\ ~shown.done
    /\ shown' = [done |-> TRUE, text |-> ClientClean(cleaned.text)]
    /\ UNCHANGED <<raw, cleaned, callVars, quizVars, extVars>>

CleanIdle == raw = <<>> /\ cleaned = NoText /\ shown = NoText

CleanInit == raw \in Texts /\ cleaned = NoText /\ shown = NoText

-----------------------------------------------------------------------------
(* The route handlers up to the callAI invocation: src/server.js 107-130 and *)
(* 168-217.  A content string is modelled by its length; the prompt content  *)
(* by how many leading characters of the input it holds and how many "..."   *)
(* markers follow them.                                                      *)

Slack == 2

SummarizeCeiling == 3000
QuizCeiling == 2000

\* content.length > C ? content.substring(0, C) + "..." : content
TruncateAtCeiling(n, C) ==
    IF n >= C THEN [taken |-> C, markers |-> 1] ELSE [taken |-> n, markers |-> 0]
Truncate(n, C) ==
    IF n > C THEN [taken |-> C, markers |-> 1] ELSE [taken |-> n, markers |-> 0]

\* the ceiling a handler truncates at
Ceiling(req) == IF req.endpoint = "summarize" THEN SummarizeCeiling ELSE QuizCeiling

NoReply == [status |-> 0, error |-> "none"]
NoPrompt == [taken |-> 0, markers |-> 0]

\* if (!content) return res.status(400)...
ValidateInput ==
    /\ hpc = "received"
    /\ IF request.len = 0
       THEN /\ hpc' = "rejected"
            /\ reply' = [status |-> 400, error |-> "No content provided"]
       ELSE /\ hpc' = "validated"
            /\ reply' = reply
    /\ UNCHANGED <<request, promptContent, calls, callVars, quizVars, cleanVars, concVars, docVars, pageVars>>

\* if (!process.env.OPENROUTER_API_KEY) return res.status(500)...
CheckKey ==
    /\ hpc = "validated"
    /\ IF ~request.hasKey
       THEN /\ hpc' = "rejected"
            /\ reply' = [status |-> 500, error |-> "API key not configured"]
       ELSE /\ hpc' = "authorized"
            /\ reply' = reply
    /\ UNCHANGED <<request, promptContent, calls, callVars, quizVars, cleanVars, concVars, docVars, pageVars>>

\* the content is truncated, the prompt built and callAI invoked
CallProvider ==
    /\ hpc = "authorized"
    /\ hpc' = "called"
    /\ promptContent' = Truncate(request.len, Ceiling(request))
    /\ calls' = calls + 1
    /\ UNCHANGED <<request, reply, callVars, quizVars, cleanVars, concVars, docVars, pageVars>>

\* content lengths around the ceilings the code and its description name
Lengths == {0, 1} \cup UNION {(C - Slack)..(C + Slack) : C \in {1500, 2000, 2500, 3000}}

\* req.body.count of a quiz request
CountValues == {-1, 0, 1, 10, 11, 20, 21}

Requests ==
    [endpoint : {"summarize"}, len : Lengths, count : {0}, hasKey : BOOLEAN]
        \cup [endpoint : {"generateQuiz"}, len : Lengths, count : CountValues, hasKey : BOOLEAN]

ReqIdle ==
    /\ request = [endpoint |-> "none", len |-> 0, count |-> 0, hasKey |-> TRUE]
    /\ hpc = "idle"
    /\ reply = NoReply
    /\ promptContent = NoPrompt
    /\ calls = 0

ReqInit ==
    /\ request \in Requests
    /\ hpc = "received"
    /\ reply = NoReply
    /\ promptContent = NoPrompt
    /\ calls = 0

-----------------------------------------------------------------------------
(* Several requests at once: each runs its own callAI (src/server.js 22-99), *)
(* whose state is local to the invocation.                                   *)

MaxRequests == 2

RequestIds == 1..MaxRequests

\* issued: fetches started; failed: fetches that ended without a return;
\* inflight: fetches started and not yet settled
IdleRequest == [pc |-> "idle", i |-> 0, issued |-> 0, failed |-> 0, inflight |-> 0,
                kind |-> "none"]

\* a request arrives and its handler invokes callAI
ReqStart(r) ==
    /\ reqs[r].pc = "idle"
    /\ reqs' = [reqs EXCEPT ![r].pc = "loop"]
    /\ UNCHANGED <<callVars, quizVars, cleanVars, reqVars, docVars, pageVars>>

\* await fetch(...) of the request's current model
ReqFetchNoAwait(r) ==
    /\ reqs[r].pc = "loop"
    /\ LoopCond(reqs[r].i)
    /\ reqs' = [reqs EXCEPT ![r].i = @ + 1, ![r].issued = @ + 1, ![r].inflight = @ + 1]
    /\ UNCHANGED <<callVars, quizVars, cleanVars, reqVars, docVars, pageVars>>
ReqFetch(r) ==
    /\ reqs[r].pc = "loop"
    /\ LoopCond(reqs[r].i)
    /\ reqs' = [reqs EXCEPT ![r].pc = "await", ![r].issued = @ + 1, ![r].inflight = @ + 1]
    /\ UNCHANGED <<callVars, quizVars, cleanVars, reqVars, docVars, pageVars>>

\* the fetch of request r settles with outcome o of the iteration:
\* "continue", "return" or "throw"
ReqSettle(r, o) ==
    /\ reqs[r].pc = "await"
    /\ LET q == reqs[r] IN
       reqs' = [reqs EXCEPT ![r] =
          CASE o = "return" ->
                 [q EXCEPT !.pc = "done", !.inflight = @ - 1, !.kind = "Success"]
            [] o = "throw" /\ IsLastModel(q.i) ->
                 [q EXCEPT !.pc = "done", !.inflight = @ - 1, !.failed = @ + 1,
                           !.kind = "AllFailed"]
            [] OTHER ->
                 [q EXCEPT !.pc = "loop", !.inflight = @ - 1, !.failed = @ + 1,
                           !.i = @ + 1]]
    /\ UNCHANGED <<callVars, quizVars, cleanVars, reqVars, docVars, pageVars>>

\* the provider answers the fetch of request r
ReqReceive(r) == \E resp \in Responses : ReqSettle(r, IterationOutcome(resp))

\* the fetch of request r rejects
ReqFetchThrows(r) == ReqSettle(r, "throw")

\* request r ran out of models
ReqLoopExit(r) ==
    /\ reqs[r].pc = "loop"
    /\ ~LoopCond(reqs[r].i)
    /\ reqs' = [reqs EXCEPT ![r].pc = "done", ![r].kind = "Unavailable"]
    /\ UNCHANGED <<callVars, quizVars, cleanVars, reqVars, docVars, pageVars>>

ConcIdle == reqs = <<>>

ConcInit == reqs = [r \in RequestIds |-> IdleRequest]

-----------------------------------------------------------------------------
(* /api/generateQuiz from the text callAI returned to the parsed array:      *)
(* src/server.js 221-310.  The text is a sequence of tokens:                 *)
(*   "fence-json" "fence"  the code fences of three backticks, with and     *)
(*                         without the json tag                            *)
(*   "[" "]" "{" "}" ","  punctuation                                        *)
(*   " "                  white space                                        *)
(*   "x" "json"           prose without brackets or quotes                   *)
(*   "Q"                  "question": "What is it?"                          *)
(*   "O:"                 "options":                                         *)
(*   "AB"                 "A","B"                                            *)
(*   "junk"               A, B   (unquoted)                                  *)
(*   "C0" "C5"            "correctIndex": 0   and   "correctIndex": 5        *)

MaxChunks == 2

\* cleaned.replace(/FENCEjson\s*|\s*FENCE/g, "") where FENCE is three backticks
RECURSIVE StripFences(_)
StripFences(s) ==
    IF s = <<>> THEN <<>>
    ELSE IF Head(s) = "fence-json" THEN StripFences(TrimStart(Tail(s)))
    ELSE IF Head(s) = "fence" THEN StripFences(Tail(s))
    ELSE IF Head(s) = " " THEN
        LET rest == TrimStart(s) IN
        IF rest # <<>> /\ Head(rest) = "fence" THEN StripFences(Tail(rest))
        ELSE IF rest # <<>> /\ Head(rest) = "fence-json"
             THEN StripFences(<<"json">> \o Tail(rest))
        ELSE <<" ">> \o StripFences(Tail(s))
    ELSE <<Head(s)>> \o StripFences(Tail(s))

\* quiz.trim(), and the fences removed when the text has any
Unfenced(s) ==
    LET t == Trim(s) IN
    IF \E k \in 1..Len(t) : t[k] \in {"fence", "fence-json"} THEN Trim(StripFences(t)) ELSE t

\* indexOf and lastIndexOf, counted from 1; 0 when absent
IndexOf(s, c) ==
    IF \E k \in 1..Len(s) : s[k] = c
    THEN CHOOSE k \in 1..Len(s) : s[k] = c /\ \A j \in 1..(k - 1) : s[j] # c
    ELSE 0
LastIndexOf(s, c) ==
    IF \E k \in 1..Len(s) : s[k] = c
    THEN CHOOSE k \in 1..Len(s) : s[k] = c /\ \A j \in (k + 1)..Len(s) : s[j] # c
    ELSE 0

\* arrayStart === -1 || arrayEnd <= arrayStart
NoArrayFoundStartOnly(s) == IndexOf(s, "[") = 0
NoArrayFound(s) == IndexOf(s, "[") = 0 \/ LastIndexOf(s, "]") < IndexOf(s, "[")

\* cleaned.substring(arrayStart, arrayEnd)
ArraySubstring(s) == SubSeq(s, IndexOf(s, "["), LastIndexOf(s, "]"))

(* JSON.parse on a token sequence *)

ParseFail == [ok |-> FALSE, val |-> Undefined, pos |-> 0]

RECURSIVE SkipWs(_, _)
SkipWs(s, p) == IF p <= Len(s) /\ s[p] = " " THEN SkipWs(s, p + 1) ELSE p

\* the object literal under construction: later members replace earlier ones
EmptyObject == Obj(Undefined, Undefined, Undefined)

RECURSIVE ParseValue(_, _)
RECURSIVE ParseElements(_, _, _)
RECURSIVE ParseMembers(_, _, _)

\* a value starting at or after p: an array or an object
ParseValue(s, p) ==
    LET q == SkipWs(s, p) IN
    IF q > Len(s) THEN ParseFail
    ELSE IF s[q] = "[" THEN
        LET a == SkipWs(s, q + 1) IN
        IF a <= Len(s) /\ s[a] = "]"
        THEN [ok |-> TRUE, val |-> Arr(<<>>), pos |-> a + 1]
        ELSE ParseElements(s, q + 1, <<>>)
    ELSE IF s[q] = "{" THEN
        LET a == SkipWs(s, q + 1) IN
        IF a <= Len(s) /\ s[a] = "}"
        THEN [ok |-> TRUE, val |-> EmptyObject, pos |-> a + 1]
        ELSE ParseMembers(s, q + 1, EmptyObject)
    ELSE ParseFail

\* the elements of an array after "[" or ",", up to the closing "]"
ParseElements(s, p, acc) ==
    LET q == SkipWs(s, p)
        elem == IF q <= Len(s) /\ s[q] = "AB"
                THEN [ok |-> TRUE, val |-> <<Str(<<"A">>), Str(<<"B">>)>>, pos |-> q + 1]
                ELSE LET v == ParseValue(s, q) IN
                     [ok |-> v.ok, val |-> <<v.val>>, pos |-> v.pos]
    IN  IF ~elem.ok THEN ParseFail
        ELSE LET n == SkipWs(s, elem.pos) IN
             IF n > Len(s) THEN ParseFail
             ELSE IF s[n] = "," THEN ParseElements(s, n + 1, acc \o elem.val)
             ELSE IF s[n] = "]" THEN [ok |-> TRUE, val |-> Arr(acc \o elem.val), pos |-> n + 1]
             ELSE ParseFail

\* the members of an object after "{" or ",", up to the closing "}"
ParseMembers(s, p, acc) ==
    LET q == SkipWs(s, p)
        member ==
            IF q > Len(s) THEN ParseFail
            ELSE IF s[q] = "Q"
                 THEN [ok |-> TRUE, val |-> [acc EXCEPT !.question = Str(<<"W", "h", "a", "t", " ", "i", "s", " ", "i", "t", "?">>)], pos |-> q + 1]
            ELSE IF s[q] = "C0"
                 THEN [ok |-> TRUE, val |-> [acc EXCEPT !.correctIndex = Num(0)], pos |-> q + 1]
            ELSE IF s[q] = "C5"
                 THEN [ok |-> TRUE, val |-> [acc EXCEPT !.correctIndex = Num(10)], pos |-> q + 1]
            ELSE IF s[q] = "O:"
                 THEN LET v == ParseValue(s, q + 1) IN
                      [ok |-> v.ok, val |-> [acc EXCEPT !.options = v.val], pos |-> v.pos]
            ELSE ParseFail
    IN  IF ~member.ok THEN ParseFail
        ELSE LET n == SkipWs(s, member.pos) IN
             IF n > Len(s) THEN ParseFail
             ELSE IF s[n] = "," THEN ParseMembers(s, n + 1, member.val)
             ELSE IF s[n] = "}" THEN [ok |-> TRUE, val |-> member.val, pos |-> n + 1]
             ELSE ParseFail

\* JSON.parse(text): fails unless the whole text is one value
JsonParse(s) ==
    LET v == ParseValue(s, 1) IN
    IF v.ok /\ SkipWs(s, v.pos) > Len(s) THEN v ELSE ParseFail

(* the regular expressions of the fallback *)

\* /"question"\s*:\s*"([^"]+)"/g : the question texts, in document order
RECURSIVE QuestionMatches(_)
QuestionMatches(s) ==
    IF s = <<>> THEN <<>>
    ELSE IF Head(s) = "Q"
         THEN <<<<"W", "h", "a", "t", " ", "i", "s", " ", "i", "t", "?">>>> \o QuestionMatches(Tail(s))
    ELSE QuestionMatches(Tail(s))

\* /"correctIndex"\s*:\s*(\d+)/g with parseInt
RECURSIVE IndexMatches(_)
IndexMatches(s) ==
    IF s = <<>> THEN <<>>
    ELSE IF Head(s) = "C0" THEN <<0>> \o IndexMatches(Tail(s))
    ELSE IF Head(s) = "C5" THEN <<5>> \o IndexMatches(Tail(s))
    ELSE IndexMatches(Tail(s))

\* the position of the first "]" at or after p, or 0
RECURSIVE NextClose(_, _)
NextClose(s, p) ==
    IF p > Len(s) THEN 0 ELSE IF s[p] = "]" THEN p ELSE NextClose(s, p + 1)

\* /"options"\s*:\s*\[([^\]]+)\]/g from position p on: the inner text of each match
\* text is parsed as a list, the placeholder standing in when that fails
RECURSIVE OptionsMatches(_, _)
OptionsMatches(s, p) ==
    IF p > Len(s) THEN <<>>
    ELSE IF s[p] # "O:" THEN OptionsMatches(s, p + 1)
    ELSE LET open == SkipWs(s, p + 1)
             close == NextClose(s, open + 1)
         IN  IF open <= Len(s) /\ s[open] = "[" /\ close > open + 1
             THEN LET parsed == JsonParse(<<"[">> \o SubSeq(s, open + 1, close - 1) \o <<"]">>)
                  IN  <<IF parsed.ok THEN parsed.val.items ELSE PlaceholderOptions>>
                          \o OptionsMatches(s, close + 1)
             ELSE OptionsMatches(s, p + 1)

\* the trimmed text, fences removed, is cut to its outermost brackets
Isolate ==
    /\ stage = "raw"
    /\ LET text == Unfenced(response) IN
       IF NoArrayFound(text)
       THEN /\ stage' = "done"
            /\ quizOut' = [kind |-> "NoArray", filtered |-> <<>>, questions |-> <<>>]
            /\ payload' = payload
       ELSE /\ stage' = "isolated"
            /\ quizOut' = quizOut
            /\ payload' = ArraySubstring(text)
    /\ UNCHANGED <<response, matches, quizIn, quizCount, callVars, cleanVars, reqVars, concVars, pageVars>>

\* quizData = JSON.parse(cleaned)
StrictDecode ==
    /\ stage = "isolated"
    /\ LET parsed == JsonParse(payload) IN
       IF parsed.ok
       THEN /\ stage' = "parsed"
            /\ quizIn' = parsed.val.items
       ELSE /\ stage' = "scan"
            /\ quizIn' = quizIn
    /\ UNCHANGED <<response, payload, matches, quizCount, quizOut, callVars, cleanVars,
                   reqVars, concVars, pageVars>>

\* the three exec loops of the fallback
ExtractMatches ==
    /\ stage = "scan"
    /\ stage' = "fallback"
    /\ matches' = [questions |-> QuestionMatches(payload),
                   options |-> OptionsMatches(payload, 1),
                   indices |-> IndexMatches(payload)]
    /\ UNCHANGED <<response, payload, quizIn, quizCount, quizOut, callVars, cleanVars,
                   reqVars, concVars, pageVars>>

(* The texts *)

Member(c) == <<"{", "Q", ",", "O:", "[", c[1], "]", ",", c[2], "}">>

\* a well-formed record, one with index 5 of 2, one with unquoted options
RecordTexts == {Member(<<"AB", "C0">>), Member(<<"AB", "C5">>), Member(<<"junk", "C0">>)}

Chunks == RecordTexts \cup {<<",">>, <<"[">>, <<"]">>, <<"Q">>, <<"C0">>}

RECURSIVE Concat(_)
Concat(ss) == IF ss = <<>> THEN <<>> ELSE Head(ss) \o Concat(Tail(ss))

Bodies == {Concat(cs) : cs \in SeqsUpTo(Chunks, MaxChunks)}

\* what surrounds the body: nothing, prose, a fenced block, prose and a fenced block
Wrappings == {<<<<>>, <<>>>>,
              <<<<"x", " ">>, <<" ", "x">>>>,
              <<<<"fence-json", " ">>, <<" ", "fence">>>>,
              <<<<"x", " ", "fence-json", " ">>, <<" ", "fence", " ">>>>}

ResponseTexts ==
    {w[1] \o open \o b \o close \o w[2] :
        w \in Wrappings, open \in {<<>>, <<"[">>}, b \in Bodies,
        close \in {<<>>, <<"]">>, <<",", "]">>}} \ {<<>>}

DocIdle == response = <<>> /\ payload = <<>>

DocInit ==
    /\ response \in ResponseTexts
    /\ payload = <<>>
    /\ stage = "raw"
    /\ matches = NoMatches
    /\ quizIn = <<>>
    /\ quizCount \in 1..MaxCount
    /\ quizOut = NoQuizOut

-----------------------------------------------------------------------------
(* The page (main.js): the click handlers of summarizeBtn and quizBtn,     *)
(* renderQuiz, selectOption, submitAnswers and the retry button.  A click  *)
(* handler runs up to its await in one step and resumes when its request   *)
(* settles; requests settle in any order.                                  *)

MaxPending == 2     \* requests of the page in flight at once
MaxListeners == 2   \* submissions (each registers a listener on retryQuiz)
MaxQuestions == 2   \* questions of a quiz

NoAnswer == -1      \* null in state.answers

\* the records /api/generateQuiz can answer with: those its filter keeps
ServedRecords ==
    {q \in {Obj(Str(LongText), Arr(<<"A", "B">>), c) : c \in {Num(0), Num(3)}} :
        IsValid(q)}

\* quizResp.questions
Quizzes == {qs \in SeqsUpTo(ServedRecords, MaxQuestions) : qs # <<>>}

OptionCount(q) == Len(q.options.items)

\* chosen === q.correctIndex, chosen being an option index
IsCorrect(chosen, q) == 2 * chosen = q.correctIndex.halves

\* whether opts[q.correctIndex] is an element (else it is undefined)
HasCorrectOption(q) ==
    /\ q.correctIndex.halves % 2 = 0
    /\ q.correctIndex.halves \div 2 \in 0 .. (OptionCount(q) - 1)

\* state = { answers: Array(questions.length).fill(null), correct: 0 }
FreshState(qs) == [answers |-> [k \in 1 .. Len(qs) |-> NoAnswer], correct |-> 0]

NoSelection(qs) == [k \in 1 .. Len(qs) |-> {}]

RemoveAt(s, k) == SubSeq(s, 1, k - 1) \o SubSeq(s, k + 1, Len(s))

\* the body of renderQuiz(qs) for a non-empty qs
RenderQuiz(qs) ==
    /\ quizQuestions' = qs
    /\ state' = FreshState(qs)
    /\ selected' = NoSelection(qs)
    /\ clicked' = FreshState(qs).answers
    /\ score' = [score EXCEPT !.hidden = TRUE]
    /\ retryVisible' = FALSE

\* a click on summarizeBtn (or regenerateSummary) with content present
ClickSummarize ==
    /\ Len(pending) < MaxPending
    /\ summaryVisible' = FALSE
    /\ quizVisible' = FALSE
    /\ loading' = TRUE
    /\ pending' = Append(pending, "summarize")
    /\ UNCHANGED <<quizPageVars, callVars, quizVars, cleanVars, reqVars, concVars, docVars>>

\* a click on quizBtn with content present
ClickQuiz ==
    /\ Len(pending) < MaxPending
    /\ summaryVisible' = FALSE
    /\ quizVisible' = FALSE
    /\ loading' = TRUE
    /\ pending' = Append(pending, "quiz")
    /\ UNCHANGED <<quizPageVars, callVars, quizVars, cleanVars, reqVars, concVars, docVars>>

\* postJSON of a summarize click resolves: show the summary, finally hide the indicator
SummaryArrives ==
    \E k \in 1 .. Len(pending) :
        /\ pending[k] = "summarize"
        /\ pending' = RemoveAt(pending, k)
        /\ summaryVisible' = TRUE
        /\ loading' = FALSE
        /\ UNCHANGED <<quizVisible, quizPageVars, callVars, quizVars, cleanVars, reqVars,
                       concVars, docVars>>

\* postJSON of a quiz click resolves: renderQuiz, showQuiz, finally hide the indicator
QuizArrives ==
    \E k \in 1 .. Len(pending), qs \in Quizzes :
        /\ pending[k] = "quiz"
        /\ pending' = RemoveAt(pending, k)
        /\ RenderQuiz(qs)
        /\ quizVisible' = TRUE
        /\ loading' = FALSE
        /\ UNCHANGED <<summaryVisible, retryListeners, rendered, uncaught, callVars, quizVars,
                       cleanVars, reqVars, concVars, docVars>>

\* postJSON rejects (network error or a status that is not ok): alert, finally hide
RequestFails ==
    \E k \in 1 .. Len(pending) :
        /\ pending' = RemoveAt(pending, k)
        /\ loading' = FALSE
        /\ UNCHANGED <<summaryVisible, quizVisible, quizPageVars, callVars, quizVars,
                       cleanVars, reqVars, concVars, docVars>>

\* a click on option optIdx of question qIdx: selectOption
SelectOption ==
    \E qIdx \in 1 .. Len(quizQuestions) :
        \E optIdx \in 0 .. (OptionCount(quizQuestions[qIdx]) - 1) :
            /\ quizVisible
            /\ selected' = [selected EXCEPT ![qIdx] =
                               (@ \ (0 .. (OptionCount(quizQuestions[qIdx]) - 1))) \cup {optIdx}]
            /\ state' = [state EXCEPT !.answers[qIdx] = optIdx]
            /\ clicked' = [clicked EXCEPT ![qIdx] = optIdx]
            /\ UNCHANGED <<loadVars, quizVisible, quizQuestions, score, retryVisible,
                           retryListeners, rendered, uncaught, callVars, quizVars,
                           cleanVars, reqVars, concVars, docVars>>

\* the forEach of submitAnswers from question idx on: the correctCount it reaches,
\* or the TypeError of opts[q.correctIndex].classList when that option does not exist
RECURSIVE Grade(_, _, _, _)
Grade(qs, ans, idx, correctCount) ==
    IF idx > Len(qs) THEN [threw |-> FALSE, correct |-> correctCount]
    ELSE IF ans[idx] = NoAnswer THEN Grade(qs, ans, idx + 1, correctCount)
    ELSE IF IsCorrect(ans[idx], qs[idx]) THEN Grade(qs, ans, idx + 1, correctCount + 1)
    ELSE IF HasCorrectOption(qs[idx]) THEN Grade(qs, ans, idx + 1, correctCount)
    ELSE [threw |-> TRUE, correct |-> correctCount]

\* a click on the submit button of the current render: submitAnswers(questions, state)
SubmitAnswers ==
    /\ quizVisible
    /\ quizQuestions # <<>>
    /\ Len(retryListeners) < MaxListeners
    /\ LET graded == Grade(quizQuestions, state.answers, 1, 0) IN
       IF graded.threw
       THEN /\ uncaught' = TRUE
            /\ UNCHANGED <<state, score, retryVisible, retryListeners>>
       ELSE /\ state' = [state EXCEPT !.correct = graded.correct]
            /\ score' = [hidden |-> FALSE, correct |-> graded.correct,
                         total |-> Len(quizQuestions)]
            /\ retryVisible' = TRUE
            /\ retryListeners' = Append(retryListeners, quizQuestions)
            /\ uncaught' = uncaught
    /\ UNCHANGED <<loadVars, quizVisible, quizQuestions, selected, clicked, rendered, callVars,
                   quizVars, cleanVars, reqVars, concVars, docVars>>

\* a click on retryQuiz: every listener registered on it runs, in order of registration
ClickRetry ==
    /\ quizVisible
    /\ retryVisible
    /\ retryListeners # <<>>
    /\ RenderQuiz(retryListeners[Len(retryListeners)])
    /\ rendered' = retryListeners
    /\ UNCHANGED <<loadVars, quizVisible, retryListeners, uncaught, callVars, quizVars,
                   cleanVars, reqVars, concVars, docVars>>

\* the page as loaded: nothing requested, nothing rendered, the indicator hidden
PageInit ==
    /\ pending = <<>>
    /\ loading = FALSE
    /\ summaryVisible = FALSE
    /\ quizVisible = FALSE
    /\ quizQuestions = <<>>
    /\ state = FreshState(<<>>)
    /\ selected = NoSelection(<<>>)
    /\ clicked = FreshState(<<>>).answers
    /\ score = [hidden |-> TRUE, correct |-> 0, total |-> 0]
    /\ retryVisible = FALSE
    /\ retryListeners = <<>>
    /\ rendered = <<>>
    /\ uncaught = FALSE

ExtIdle == ReqIdle /\ ConcIdle /\ DocIdle /\ PageInit

Init == CallInit /\ QuizIdle /\ CleanIdle /\ ExtIdle

Next ==
    \/ CallAI
    \/ Fetch
    \/ LoopExit
    \/ RateLimited
    \/ ServerError
    \/ ClientError
    \/ EmptyContent
    \/ Success
    \/ BadBody
    \/ FetchThrows

Spec == Init /\ [][Next]_vars

\* /api/generateQuiz from the parsed response on, for every bounded input
ParseInit == CallInit /\ QuizInit /\ CleanIdle /\ ExtIdle
ParseNext == FallbackAssemble \/ ValidateFilter
ParseSpec == ParseInit /\ [][ParseNext]_vars

\* the summary clean-up, for every bounded raw summary
SummaryInit == CallInit /\ QuizIdle /\ CleanInit /\ ExtIdle
SummaryNext == Summarize \/ ShowSummary
SummarySpec == SummaryInit /\ [][SummaryNext]_vars

\* the route handlers from the request to the callAI invocation
HandlerInit == CallInit /\ QuizIdle /\ CleanIdle /\ ReqInit /\ ConcIdle /\ DocIdle /\ PageInit
HandlerNext == ValidateInput \/ CheckKey \/ CallProvider
HandlerSpec == HandlerInit /\ [][HandlerNext]_vars

\* requests handled at the same time
ConcurrentInit == CallInit /\ QuizIdle /\ CleanIdle /\ ReqIdle /\ ConcInit /\ DocIdle /\ PageInit
ConcurrentNext ==
    \E r \in RequestIds :
        \/ ReqStart(r)
        \/ ReqFetch(r)
        \/ ReqReceive(r)
        \/ ReqFetchThrows(r)
        \/ ReqLoopExit(r)
ConcurrentSpec == ConcurrentInit /\ [][ConcurrentNext]_vars

\* /api/generateQuiz from the text callAI returned to the answer
PipelineInit == CallInit /\ CleanIdle /\ ReqIdle /\ ConcIdle /\ DocInit /\ PageInit
PipelineNext ==
    \/ Isolate
    \/ StrictDecode
    \/ ExtractMatches
    \/ FallbackAssemble
    \/ ValidateFilter
PipelineSpec == PipelineInit /\ [][PipelineNext]_vars

\* the page as loaded, the server model idle
PageLoaded == CallInit /\ QuizIdle /\ CleanIdle /\ ReqIdle /\ ConcIdle /\ DocIdle /\ PageInit

\* the click handlers of the page, for every interleaving of clicks and responses
LoadingNext ==
    \/ ClickSummarize
    \/ ClickQuiz
    \/ SummaryArrives
    \/ QuizArrives
    \/ RequestFails
LoadingSpec == PageLoaded /\ [][LoadingNext]_vars

\* the quiz of the page, for every sequence of renders, selections, submissions and retries
QuizPageNext ==
    \/ ClickQuiz
    \/ QuizArrives
    \/ SelectOption
    \/ SubmitAnswers
    \/ ClickRetry
QuizPageSpec == PageLoaded /\ [][QuizPageNext]_vars

\* The event loop runs every continuation that is ready: each step of callAI
\* that is enabled is eventually taken.
FairSpec == Spec /\ WF_vars(Next)

-----------------------------------------------------------------------------
(* Properties of callAI *)

Transient429or5xx(o) == o.class \in {"429", "5xx"}

\* 429, 5xx, a 2xx body without usable content, or no response at all
TransientOutcome(o) ==
    \/ o.class \in {"429", "5xx", "network"}
    \/ o.class = "2xx" /\ ~o.content

Exhausted == result.kind \in {"Unavailable", "AllFailed"}

\* C1: a candidate that answers with a non-success status other than 429 or 5xx
\* is the last candidate attempted: the invocation is over right then, with a
\* failure that carries that status.
C1_FatalAborts ==
    \A k \in 1..Len(attempts) :
        (attempts[k].outcome.class = "4xx" /\ attempts[k].outcome.json) =>
            /\ k = Len(attempts)
            /\ pc = "done"
            /\ result.kind = "AllFailed"
            /\ result.msg = "4xx"

\* C2: when every answer of the invocation was a 429 or a 5xx, the invocation
\* ends exhausted and the models attempted are exactly the candidate list,
\* each once, in order.
C2_AllTransientExhausts ==
    (pc = "done" /\ \A k \in 1..Len(attempts) : Transient429or5xx(attempts[k].outcome)) =>
        /\ Exhausted
        /\ Len(attempts) = Len(freeModels)
        /\ \A k \in 1..Len(attempts) : attempts[k].model = freeModels[k]

C2_Witness ==
    /\ pc = "done"
    /\ Exhausted
    /\ Len(attempts) = Len(freeModels)
    /\ \A k \in 1..Len(attempts) : Transient429or5xx(attempts[k].outcome)
    /\ \E k \in 1..Len(attempts) : attempts[k].outcome.class = "429"
    /\ \E k \in 1..Len(attempts) : attempts[k].outcome.class = "5xx"

\* C3: the invocation that follows a success through model P walks a
\* candidate list that begins with P.
C3_HintedFirst ==
    [][(pc = "done" /\ result.kind = "Success" /\ pc' = "loop") =>
          order'[1] = result.model]_vars

\* C4: a successful invocation got its content from the last model it
\* attempted, every model before it in the list was attempted once and failed
\* transiently, and nothing after it was attempted.
C4_FirstUsableWins ==
    (pc = "done" /\ result.kind = "Success") =>
        LET n == Len(attempts) IN
        /\ n >= 1
        /\ attempts[n].outcome.content
        /\ result.model = attempts[n].model
        /\ \A k \in 1..n : attempts[k].model = order[k]
        /\ \A k \in 1..(n - 1) : TransientOutcome(attempts[k].outcome)

\* C5: every invocation of callAI eventually returns or throws.
C5_Terminates == (pc = "loop") ~> (pc = "done")

-----------------------------------------------------------------------------
(* Properties of the quiz handler *)

Range(xs) == {xs[k] : k \in 1..Len(xs)}

\* the record contract: question text, at least two options, index in range
QuizRecordInvariant(r) ==
    /\ r.t = "object"
    /\ r.question.t = "string"
    /\ Len(r.question.chars) > 0
    /\ r.options.t = "array"
    /\ Len(r.options.items) >= 2
    /\ r.correctIndex.t = "number"
    /\ r.correctIndex.halves >= 0
    /\ r.correctIndex.halves < 2 * Len(r.options.items)

\* a record the validator has to keep: the filter accepts it without raising
RecordValid(q) == ~PropThrows(q) /\ IsValid(q)

\* C6: for a positive count the handler answers with at most count records,
\* after strict decoding and after the fallback alike, and they are the first
\* valid records of the parsed array, in its order.
C6_AtMostCount ==
    (quizOut.kind = "Ok" /\ quizCount >= 1) =>
        LET n == Len(quizOut.questions)
            valid == SelectSeq(quizIn, RecordValid)
        IN  /\ n <= quizCount
            /\ n = Min(quizCount, Len(valid))
            /\ \A k \in 1..n : quizOut.questions[k] = valid[k]

\* the fallback produced more valid records than asked for
C6_Witness ==
    /\ quizOut.kind = "Ok"
    /\ matches.questions # <<>>
    /\ quizCount >= 1
    /\ Len(quizOut.filtered) > quizCount
    /\ Len(quizOut.questions) = quizCount

\* the rule the validator is said to apply
ClaimedValid(q) ==
    /\ q.t = "object"
    /\ q.question.t = "string"
    /\ Len(Trim(q.question.chars)) > 5
    /\ q.options.t = "array"
    /\ Len(q.options.items) >= 2
    /\ IsInteger(q.correctIndex)
    /\ q.correctIndex.halves >= 0
    /\ q.correctIndex.halves < 2 * Len(q.options.items)

\* C7: the filter keeps exactly the records whose question is text of trimmed
\* length above 5, whose options are a list of at least 2, and whose
\* correctIndex is an integer with 0 <= correctIndex < len(options).
C7_KeepsIff ==
    quizOut.kind \in {"Ok", "NoValid"} =>
        quizOut.filtered = SelectSeq(quizIn, ClaimedValid)

\* C8: every record of a successful answer satisfies the record contract and
\* is one of the parsed records, unaltered; records that violate the contract
\* are not in the answer in any form.
C8_RecordInvariant ==
    quizOut.kind = "Ok" =>
        /\ \A k \in 1..Len(quizOut.questions) :
              /\ QuizRecordInvariant(quizOut.questions[k])
              /\ quizOut.questions[k] \in Range(quizIn)
        /\ Len(quizOut.questions) <=
              Cardinality({j \in 1..Len(quizIn) : QuizRecordInvariant(quizIn[j])})

\* a successful answer from an array that also held a record with
\* correctIndex 5 against 3 options
C8_Witness ==
    /\ quizOut.kind = "Ok"
    /\ BadIndexRecord \in Range(quizIn)
    /\ Len(quizOut.questions) >= 1
    /\ BadIndexRecord \notin Range(quizOut.questions)

\* C9: validation never raises; it fails with "no valid questions" exactly
\* when no parsed element is a valid record, and otherwise answers with at
\* least one record.
C9_NoCrash ==
    (stage = "done" /\ quizOut.kind # "ParseFailed") =>
        /\ quizOut.kind # "TypeError"
        /\ quizOut.kind = "NoValid" <=> ~\E k \in 1..Len(quizIn) : RecordValid(quizIn[k])
        /\ quizOut.kind = "Ok" => Len(quizOut.questions) >= 1

-----------------------------------------------------------------------------
(* Properties of the summary clean-up *)

StartsWithIntro(s) == \E k \in 1..Len(introPatterns) : MatchesIntro(s, k)

\* C10: cleaning a cleaned summary changes nothing, and a summary that starts
\* with none of the phrases is only trimmed.
C10_Idempotent ==
    cleaned.done =>
        /\ Clean(cleaned.text) = cleaned.text
        /\ ~StartsWithIntro(Trim(raw)) => cleaned.text = Trim(raw)

-----------------------------------------------------------------------------
(* Properties of the route handlers *)

\* C11 as stated: the prompt holds the first C characters and one marker when
\* the input is longer than C, the whole input and no marker otherwise, with
\* C = 2500 for summarize, and for the quiz 1500 when count > 10, else 2000.
C11_TruncationAsStated ==
    hpc = "called" =>
        LET C == IF request.endpoint = "summarize" THEN 2500
                 ELSE IF request.count > 10 THEN 1500 ELSE 2000
        IN  IF request.len > C
            THEN promptContent.taken = C /\ promptContent.markers = 1
            ELSE promptContent.taken = request.len /\ promptContent.markers = 0

\* C11 amended: the same with C = 3000 for summarize and C = 2000 for the
\* quiz, whatever the count.
C11_Truncation ==
    hpc = "called" =>
        LET C == IF request.endpoint = "summarize" THEN 3000 ELSE 2000
        IN  IF request.len > C
            THEN promptContent.taken = C /\ promptContent.markers = 1
            ELSE promptContent.taken = request.len /\ promptContent.markers = 0

\* a quiz request for more than 10 questions whose content is cut at 2000
C11_Witness ==
    /\ hpc = "called"
    /\ request.endpoint = "generateQuiz"
    /\ request.count > 10
    /\ request.len > 2000
    /\ promptContent = [taken |-> 2000, markers |-> 1]

InvalidInput(req) ==
    \/ req.len = 0
    \/ req.endpoint = "generateQuiz" /\ ~(req.count >= 1 /\ req.count <= 20)

\* C12: a request with invalid input is rejected with the input error as soon
\* as it is handled, whether or not the API key is configured, and no provider
\* call is issued for it.
C12_InvalidRejected ==
    (InvalidInput(request) /\ hpc \notin {"idle", "received"}) =>
        /\ hpc = "rejected"
        /\ reply.status = 400
        /\ calls = 0

-----------------------------------------------------------------------------
(* More properties of callAI *)

EmptySuccess(o) == o.class = "2xx" /\ o.json /\ ~o.content

\* the invocation went on to the candidate after the k-th of the list
WentOnAfter(k) ==
    \/ Len(attempts) > k /\ attempts[k + 1].model = freeModels[k + 1]
    \/ Len(attempts) = k /\ pc \in {"loop", "await"} /\ i = k

C14_NetworkError ==
    \A k \in 1..Len(attempts) :
        attempts[k].outcome = NetworkError =>
            IF k < Len(freeModels)
            THEN WentOnAfter(k)
            ELSE pc = "done" /\ result.kind = "AllFailed" /\ result.msg = "network"

\* exceptions on an early candidate and on the last one
C14_Witness ==
    /\ pc = "done"
    /\ result = [kind |-> "AllFailed", model |-> "none", msg |-> "network"]
    /\ Len(attempts) = Len(freeModels)
    /\ attempts[1].outcome = NetworkError
    /\ attempts[Len(attempts)].outcome = NetworkError

-----------------------------------------------------------------------------
(* Properties of concurrent requests *)

\* C15: a request has at most one fetch in flight, and it has started at most
\* one fetch more than have failed (the next candidate is called only after
\* the previous call failed); requests advance side by side.
C15_Sequential ==
    \A r \in DOMAIN reqs :
        /\ reqs[r].inflight \in {0, 1}
        /\ reqs[r].inflight = 1 <=> reqs[r].pc = "await"
        /\ reqs[r].issued = reqs[r].failed + reqs[r].inflight
              + (IF reqs[r].kind = "Success" THEN 1 ELSE 0)

\* two requests with a fetch in flight at the same time, at different candidates
C15_Witness ==
    /\ DOMAIN reqs # {}
    /\ \E r1, r2 \in DOMAIN reqs :
          /\ r1 # r2
          /\ reqs[r1].pc = "await" /\ reqs[r1].inflight = 1 /\ reqs[r1].i = 0
          /\ reqs[r2].pc = "await" /\ reqs[r2].inflight = 1 /\ reqs[r2].i = 3

-----------------------------------------------------------------------------
(* Properties of payload isolation and of the fallback *)

\* some "[" of the text comes before some "]"
HasBracketPair(s) == \E a, b \in 1..Len(s) : a < b /\ s[a] = "[" /\ s[b] = "]"

\* C16 as stated: a response without a bracket pair is passed on trimmed and
\* unchanged, and fails as a parse failure after both stages.
C16_IsolationNeverFails ==
    (stage = "done" /\ ~HasBracketPair(Unfenced(response))) =>
        /\ payload = Unfenced(response)
        /\ quizOut.kind = "ParseFailed"

\* C16 amended: a response without a bracket pair fails at isolation with "no
\* JSON array found", before any parse stage; the parse failure is reported
\* only for a response that has a pair, whose array text is the text from the
\* first "[" to the last "]", and only after both stages failed on it.
C16_NoArrayFailsEarly ==
    LET text == Unfenced(response) IN
    /\ (stage # "raw" /\ response # <<>> /\ ~HasBracketPair(text)) =>
          /\ stage = "done"
          /\ quizOut.kind = "NoArray"
          /\ payload = <<>> /\ quizIn = <<>> /\ matches = NoMatches
    /\ (stage # "raw" /\ HasBracketPair(text)) =>
          /\ quizOut.kind # "NoArray"
          /\ payload[1] = "[" /\ payload[Len(payload)] = "]"
          /\ \E a \in 1..Len(text) :
                /\ payload = SubSeq(text, a, a + Len(payload) - 1)
                /\ \A k \in 1..Len(text) : text[k] = "[" => k >= a
                /\ \A k \in 1..Len(text) : text[k] = "]" => k <= a + Len(payload) - 1
    /\ (response # <<>> /\ quizOut.kind = "ParseFailed") =>
          /\ HasBracketPair(text)
          /\ ~JsonParse(payload).ok
          /\ \E f \in {"questions", "options", "indices"} : matches[f] = <<>>

\* a "]" before the only "["
C16_Witness ==
    /\ quizOut.kind = "NoArray"
    /\ IndexOf(response, "[") > 0
    /\ IndexOf(response, "]") > 0

\* the fallback has built its array (or failed to) for the response
FallbackRan ==
    /\ response # <<>>
    /\ stage \in {"parsed", "done"}
    /\ quizOut.kind # "NoArray"
    /\ ~JsonParse(payload).ok

Min3(m) == Min(Len(m.questions), Min(Len(m.options), Len(m.indices)))

Positional(n) ==
    /\ Len(quizIn) = n
    /\ \A k \in 1..n :
          /\ quizIn[k].question = Str(matches.questions[k])
          /\ quizIn[k].options = Arr(matches.options[k])
          /\ quizIn[k].correctIndex = Num(2 * matches.indices[k])

\* C17 as stated: the fallback builds min(count, #questions, #options,
\* #indices) records, the k-th from the k-th match of each field, and fails
\* when that number is zero.
C17_CappedReassembly ==
    FallbackRan =>
        LET n == Min(quizCount, Min3(matches)) IN
        /\ Positional(n)
        /\ n = 0 <=> quizOut.kind = "ParseFailed"

\* C17 amended: the fallback builds min(#questions, #options, #indices)
\* records, whatever the count; the matches are those of the array text in
\* document order, an options match that does not decode being the placeholder.
C17_Reassembly ==
    FallbackRan =>
        LET n == Min3(matches) IN
        /\ Positional(n)
        /\ n = 0 <=> quizOut.kind = "ParseFailed"
        /\ Len(matches.questions) = Cardinality({k \in 1..Len(payload) : payload[k] = "Q"})
        /\ Len(matches.indices) =
               Cardinality({k \in 1..Len(payload) : payload[k] \in {"C0", "C5"}})
        /\ \A k \in 1..Len(matches.indices) :
               matches.indices[k] =
                   (IF SelectSeq(payload, LAMBDA t : t \in {"C0", "C5"})[k] = "C0" THEN 0 ELSE 5)
        /\ Len(matches.options) <= Cardinality({k \in 1..Len(payload) : payload[k] = "O:"})

\* two records rebuilt for a request of one, the first with the placeholder
C17_Witness ==
    /\ FallbackRan
    /\ quizCount = 1
    /\ Len(quizIn) = 2
    /\ quizIn[1].options = Arr(PlaceholderOptions)
    /\ quizIn[2].options # Arr(PlaceholderOptions)

(* The page *)

\* C18: the loading indicator is visible at every moment at which at least one
\* request of a click handler is in flight, and hidden when none is
C18_LoadingWhilePending == loading <=> (pending # <<>>)

\* C19: one click on the retry button invokes renderQuiz exactly once, with the
\* questions of the quiz displayed, and leaves every answer unanswered
C19_RetryRendersOnce ==
    [][ClickRetry =>
        /\ rendered' = <<quizQuestions>>
        /\ \A k \in DOMAIN state'.answers : state'.answers[k] = NoAnswer]_vars

\* each question has at most one selected option, the one clicked last, and
\* state.answers records it (null if none was clicked)
SelectionOK ==
    \A q \in 1 .. Len(quizQuestions) :
        /\ Cardinality(selected[q]) <= 1
        /\ state.answers[q] = clicked[q]
        /\ selected[q] = IF clicked[q] = NoAnswer THEN {} ELSE {clicked[q]}

\* the questions whose recorded answer equals correctIndex
CorrectAnswers ==
    {q \in 1 .. Len(quizQuestions) :
        state.answers[q] # NoAnswer /\ IsCorrect(state.answers[q], quizQuestions[q])}

\* quizResult shows the number of correct answers out of the number of questions
ScoreOK ==
    /\ ~score.hidden
    /\ score.correct = Cardinality(CorrectAnswers)
    /\ score.total = Len(quizQuestions)
    /\ 0 <= score.correct /\ score.correct <= Len(quizQuestions)

\* C20: after any option clicks each question has at most one selected option and
\* state.answers holds the option clicked last; a submission shows as score the
\* number of questions answered correctly, between 0 and the number of questions
C20_SelectionAndScore == [][SelectionOK' /\ (SubmitAnswers => ScoreOK')]_vars

====
